---- MODULE Spec2Model ----
(***************************************************************************)
(* Detection-and-trade pipeline of the THORChain RUJI stream-swap bot:     *)
(*   PollerService  -> 'action.detected'                                   *)
(*   DetectorService -> 'streamswap.detected' -> 'validopportunity.detected'*)
(*   TradePlannerService -> KrakenTradeService -> TradeLifecycleService    *)
(*                                                                         *)
(* Node runs every handler to completion between two awaits, so each       *)
(* action below is one such run: from an await's resumption to the next    *)
(* await (or to the handler's end).                                        *)
(*                                                                         *)
(* Units: prices are in cents, quantities in 1/1000 RUJI, so that the      *)
(* floating-point arithmetic of the source is exact on the books used.     *)
(***************************************************************************)
EXTENDS Integers, Sequences, FiniteSets, TLC

\* ------------------------------------------------------------------ bounds
\* polls started in one behaviour
MaxPolls == 3
\* the longest list of output transfers given to getSwapDirection
MaxOut == 2
\* stream swaps handed to handleStreamSwap in one behaviour
MaxSwaps == 2
\* calls of scheduleExit in one behaviour of the lifecycle service
MaxSchedules == 2
\* the clock runs to this many milliseconds
MaxClock == 1
\* at most this many HTTP requests are sent to the venue
MaxRequests == 2
\* the fetch limit, getRecentActions(20) in the source, scaled down
BatchLimit == 2
\* capacity of the dedup window, 1000 in the source, scaled down
maxProcessedTxIds == 2

\* ------------------------------------------------------- program constants
pollIntervalMs == 6000
API_TIMEOUT_MS == 10000
BLOCK_SECONDS == 6
MIN_OPPORTUNITY_SIZE == 4000
MIN_OPPORTUNITY_DURATION_S == 30
TADE_SIZE == 5
MAX_SLIPPAGE_PCT == 5
EXIT_BUFFER_SECONDS == 10
\* the fallback quantity 0.001 of calculateTradeSize, in 1/1000 RUJI
FALLBACK_QTY == 1

NoTx == 0
None == [none |-> TRUE]

Range(s) == {s[k] : k \in DOMAIN s}
Max(a, b) == IF a >= b THEN a ELSE b
Min(a, b) == IF a <= b THEN a ELSE b

\* ------------------------------------------------------------ ledger data
\* A decimal string is the sequence of its digits; "" is the absent field.
Str1 == <<1>>
Str5 == <<5>>
Str10 == <<1, 0>>

\* One MidgardAction: txID of in[0] (NoTx when absent), height, type, status,
\* metadata.swap.isStreamingSwap, whether streamingSwapMeta is present and
\* its count/interval/quantity strings, the THORNode coin amount (whole
\* units), inPriceUSD, and the meta's depositedCoin amount, outEstimation
\* (whole units) and outPriceUSD.
Action(tx, h, ty, st, stream, meta, c, i, q, amt, dep, dir) ==
    [txID |-> tx, height |-> h, type |-> ty, status |-> st,
     isStreamingSwap |-> stream, hasMeta |-> meta,
     count |-> c, interval |-> i, quantity |-> q,
     coinAmount |-> amt, inPriceUSD |-> 1,
     deposited |-> dep, outEstimation |-> 0, outPriceUSD |-> 1,
     direction |-> dir]

A1 == Action(1, 5, "swap", "pending", TRUE, TRUE, Str10, Str1, Str10, 150, 50, "long")
A2 == Action(2, 5, "swap", "pending", TRUE, TRUE, Str10, Str1, Str5, 5000, 5000, "short")
A3 == Action(3, 6, "swap", "pending", TRUE, FALSE, <<>>, <<>>, <<>>, 5000, 0, "long")
A4 == Action(4, 6, "swap", "pending", FALSE, FALSE, <<>>, <<>>, <<>>, 5000, 0, "long")
A5 == Action(5, 6, "refund", "pending", TRUE, TRUE, Str10, Str1, Str10, 5000, 5000, "short")
A6 == Action(6, 7, "swap", "success", TRUE, TRUE, Str10, Str1, Str10, 5000, 5000, "short")
A7 == Action(NoTx, 8, "swap", "pending", TRUE, TRUE, Str10, Str1, Str10, 5000, 5000, "long")
A8 == Action(NoTx, 6, "swap", "pending", TRUE, TRUE, Str10, Str1, Str10, 5000, 5000, "long")

Catalog == {A1, A2, A3, A4, A5, A6, A7, A8}
TxIds == {a.txID : a \in Catalog} \ {NoTx}

\* The actions the ledger index can return in one behaviour.
Ledgers == {{A1, A4, A5}, {A2, A3}, {A6, A7, A8}}

\* Every response of at most BatchLimit distinct actions of a ledger.
Batches(L) ==
    UNION {{b \in [1..n -> L] : \A j, k \in 1..n : j # k => b[j] # b[k]} :
              n \in 0..BatchLimit}

\* ---------------------------------------------------------------- poller
\* the request of getRecentActions failed or timed out
FetchFailed == [fetchFailed |-> TRUE]

\* what the ledger index can answer to one request
Responses(L) == {[actions |-> b] : b \in Batches(L)} \cup {FetchFailed}

\* faulty variant: a failed request is answered from the ledger seen so far
getRecentActions_Stale(response) ==
    IF response = FetchFailed THEN <<CHOOSE a \in Catalog : a.txID # NoTx>>
    ELSE response.actions

\* MidgardService.getRecentActions: response.data.actions, [] from the catch
getRecentActions(response) ==
    IF response = FetchFailed THEN <<>> ELSE response.actions

\* parseInt of a decimal string
RECURSIVE parseInt(_)
parseInt(s) ==
    IF Len(s) = 0 THEN 0
    ELSE parseInt(SubSeq(s, 1, Len(s) - 1)) * 10 + s[Len(s)]

\* Array.prototype.sort by height: stable insertion of a into sorted s
RECURSIVE InsertByHeight(_, _)
InsertByHeight(s, a) ==
    IF Len(s) = 0 THEN <<a>>
    ELSE IF s[Len(s)].height <= a.height THEN Append(s, a)
    ELSE Append(InsertByHeight(SubSeq(s, 1, Len(s) - 1), a), s[Len(s)])

RECURSIVE sortedActionsFrom(_, _)
sortedActionsFrom(acc, rest) ==
    IF Len(rest) = 0 THEN acc
    ELSE sortedActionsFrom(InsertByHeight(acc, Head(rest)), Tail(rest))

\* faulty variant: the ordering step keeps one action per height
RECURSIVE DistinctHeights(_)
DistinctHeights(s) ==
    IF Len(s) <= 1 THEN s
    ELSE LET r == DistinctHeights(SubSeq(s, 1, Len(s) - 1))
         IN  IF r[Len(r)].height = s[Len(s)].height THEN r ELSE Append(r, s[Len(s)])

\* faulty variant: the response is processed in the order of the feed
sortedActions_FeedOrder(actions) == actions

sortedActions_Dedup(actions) == DistinctHeights(sortedActionsFrom(<<>>, actions))

sortedActions(actions) == sortedActionsFrom(<<>>, actions)

\* faulty variant: an action without txID ends the loop instead of being skipped
RECURSIVE PollLoop_StopAtNoTx(_, _)
PollLoop_StopAtNoTx(sorted, st) ==
    IF Len(sorted) = 0 THEN st
    ELSE LET action == Head(sorted)
             txId == action.txID
         IN  IF txId = NoTx THEN st
             ELSE IF txId \in Range(st.processed)
             THEN PollLoop_StopAtNoTx(Tail(sorted), st)
             ELSE PollLoop_StopAtNoTx(Tail(sorted),
                           [processed |-> Append(st.processed, txId),
                            maxHeightSeen |-> Max(st.maxHeightSeen, action.height),
                            emitted |-> Append(st.emitted, action)])

\* faulty variant: the height of the last emitted action replaces
\* maxHeightSeen, also when it is lower
RECURSIVE PollLoop_LastHeight(_, _)
PollLoop_LastHeight(sorted, st) ==
    IF Len(sorted) = 0 THEN st
    ELSE LET action == Head(sorted)
             txId == action.txID
         IN  IF txId = NoTx \/ txId \in Range(st.processed)
             THEN PollLoop_LastHeight(Tail(sorted), st)
             ELSE PollLoop_LastHeight(Tail(sorted),
                           [processed |-> Append(st.processed, txId),
                            maxHeightSeen |-> action.height,
                            emitted |-> Append(st.emitted, action)])

\* the for loop of poll(): st = [processed, maxHeightSeen, emitted]
RECURSIVE PollLoop(_, _)
PollLoop(sorted, st) ==
    IF Len(sorted) = 0 THEN st
    ELSE LET action == Head(sorted)
             txId == action.txID
         IN  IF txId = NoTx \/ txId \in Range(st.processed)
             THEN PollLoop(Tail(sorted), st)
             ELSE PollLoop(Tail(sorted),
                           [processed |-> Append(st.processed, txId),
                            maxHeightSeen |-> Max(st.maxHeightSeen, action.height),
                            emitted |-> Append(st.emitted, action)])

\* Array.from(set).slice(-maxProcessedTxIds)
\* faulty variant: the oldest ids are kept
Trim_KeepOldest(processed) ==
    IF Len(processed) > maxProcessedTxIds
    THEN SubSeq(processed, 1, maxProcessedTxIds)
    ELSE processed

Trim(processed) ==
    IF Len(processed) > maxProcessedTxIds
    THEN SubSeq(processed, Len(processed) - maxProcessedTxIds + 1, Len(processed))
    ELSE processed

\* -------------------------------------------------------------- detector
\* MidgardService.isStreamSwap
isStreamSwap(action) ==
    action.type = "swap" /\ action.isStreamingSwap = TRUE

\* ---------------------------------------------------- swap direction
\* an absent coin
NoCoin == ""

\* in: no transfer, a transfer without coins, a transfer of RUJI
InTransfers == {<<>>, <<[coins |-> <<>>]>>, <<[coins |-> <<"THOR.RUJI">>]>>}
\* one output transfer: without coins, an affiliate fee in the input asset,
\* the swapped asset
OutTransfer == {[coins |-> <<>>], [coins |-> <<"THOR.RUJI">>],
                [coins |-> <<"THOR.RUNE">>]}
OutTransfers == UNION {[1..n -> OutTransfer] : n \in 0..MaxOut}
PoolLists == {<<>>, <<"BTC.BTC">>, <<"BTC.BTC", "THOR.RUJI">>}
\* streamingSwapMeta: absent, with both coins, with the output coin missing
Metas == {None, [inCoin |-> "ETH.ETH", outCoin |-> "THOR.RUJI"],
          [inCoin |-> "ETH.ETH", outCoin |-> NoCoin]}

\* the parts of a MidgardAction that getSwapDirection reads
SwapActions == [in : InTransfers, out : OutTransfers, pools : PoolLists, meta : Metas]

\* the for loop of getSwapDirection: the first coin of the first output
\* transfer that has coins and is not in the input asset
RECURSIVE FirstUsableOut(_, _)
FirstUsableOut(out, inAsset) ==
    IF Len(out) = 0 THEN NoCoin
    ELSE IF Len(Head(out).coins) > 0 /\ Head(out).coins[1] # inAsset
    THEN Head(out).coins[1]
    ELSE FirstUsableOut(Tail(out), inAsset)

\* action.in[0]?.coins?.[0]
FirstInCoin(action) ==
    IF Len(action.in) > 0 /\ Len(action.in[1].coins) > 0
    THEN action.in[1].coins[1] ELSE NoCoin

\* faulty variant: the streaming metadata is tried before the pool list
getSwapDirection_MetaBeforePools(action) ==
    LET inCoin == FirstInCoin(action)
        outCoin == FirstUsableOut(action.out, inCoin)
    IN  IF Len(action.in) > 0 /\ Len(action.out) > 0 /\ inCoin # NoCoin /\ outCoin # NoCoin
        THEN [from |-> inCoin, to |-> outCoin]
        ELSE IF action.meta # None /\ action.meta.inCoin # NoCoin
                /\ action.meta.outCoin # NoCoin
        THEN [from |-> action.meta.inCoin, to |-> action.meta.outCoin]
        ELSE IF Len(action.pools) >= 2
        THEN [from |-> action.pools[1], to |-> action.pools[2]]
        ELSE None

\* faulty variant: the first output transfer with coins is taken, an
\* affiliate fee in the input asset included
getSwapDirection_NoAffiliateSkip(action) ==
    LET inCoin == FirstInCoin(action)
        outCoin == FirstUsableOut(action.out, NoCoin)
    IN  IF Len(action.in) > 0 /\ Len(action.out) > 0 /\ inCoin # NoCoin /\ outCoin # NoCoin
        THEN [from |-> inCoin, to |-> outCoin]
        ELSE IF Len(action.pools) >= 2
        THEN [from |-> action.pools[1], to |-> action.pools[2]]
        ELSE IF action.meta # None /\ action.meta.inCoin # NoCoin
                /\ action.meta.outCoin # NoCoin
        THEN [from |-> action.meta.inCoin, to |-> action.meta.outCoin]
        ELSE None

\* faulty variant: a placeholder pair instead of null when every source fails
getSwapDirection_Placeholder(action) ==
    LET inCoin == FirstInCoin(action)
        outCoin == FirstUsableOut(action.out, inCoin)
    IN  IF Len(action.in) > 0 /\ Len(action.out) > 0 /\ inCoin # NoCoin /\ outCoin # NoCoin
        THEN [from |-> inCoin, to |-> outCoin]
        ELSE IF Len(action.pools) >= 2
        THEN [from |-> action.pools[1], to |-> action.pools[2]]
        ELSE IF action.meta # None /\ action.meta.inCoin # NoCoin
                /\ action.meta.outCoin # NoCoin
        THEN [from |-> action.meta.inCoin, to |-> action.meta.outCoin]
        ELSE [from |-> "unknown", to |-> "unknown"]

\* MidgardService.getSwapDirection (None stands for null)
getSwapDirection(action) ==
    LET inCoin == FirstInCoin(action)
        outCoin == FirstUsableOut(action.out, inCoin)
    IN  IF Len(action.in) > 0 /\ Len(action.out) > 0 /\ inCoin # NoCoin /\ outCoin # NoCoin
        THEN [from |-> inCoin, to |-> outCoin]
        ELSE IF Len(action.pools) >= 2
        THEN [from |-> action.pools[1], to |-> action.pools[2]]
        ELSE IF action.meta # None /\ action.meta.inCoin # NoCoin
                /\ action.meta.outCoin # NoCoin
        THEN [from |-> action.meta.inCoin, to |-> action.meta.outCoin]
        ELSE None

\* MidgardService.getSwapAssets: the direction pair of getSwapDirection with
\* the trade direction added (long = counter-asset -> RUJI), null when no
\* source gives a pair
getSwapAssets(action) ==
    LET pair == getSwapDirection(action)
    IN  IF pair = None THEN None
        ELSE [from |-> pair.from, to |-> pair.to,
              direction |-> IF pair.to = "THOR.RUJI" THEN "long" ELSE "short"]

\* actions that follow the first one in a run of handleStreamSwap calls:
\* no source, pools only, metadata only, coins with an affiliate fee first
SwapSamples ==
    {[in |-> <<>>, out |-> <<>>, pools |-> <<"BTC.BTC">>, meta |-> None],
     [in |-> <<>>, out |-> <<>>, pools |-> <<"BTC.BTC", "THOR.RUJI">>, meta |-> None],
     [in |-> <<>>, out |-> <<>>, pools |-> <<>>,
      meta |-> [inCoin |-> "ETH.ETH", outCoin |-> "THOR.RUJI"]],
     [in |-> <<[coins |-> <<"THOR.RUJI">>]>>,
      out |-> <<[coins |-> <<"THOR.RUJI">>], [coins |-> <<"THOR.RUNE">>]>>,
      pools |-> <<>>, meta |-> None]}

\* -------------------------------------------------------------- detector
\* parseInt(streamingMeta?.field ?? '1')
MetaInt(action, field) == IF action.hasMeta THEN parseInt(field) ELSE parseInt(Str1)

\* handleStreamSwap: quantity * interval * 6
estimatedDurationSeconds(action) ==
    MetaInt(action, action.quantity) * MetaInt(action, action.interval) * BLOCK_SECONDS

calculateSizeFromThornodeTx(amount, assetPriceUSD) ==
    IF amount <= 0 \/ assetPriceUSD <= 0 THEN 0 ELSE amount * assetPriceUSD

getStreamSwapSizeInUSD(action) ==
    LET inAmount == IF action.hasMeta THEN action.deposited ELSE 0
        outAmount == IF action.hasMeta THEN action.outEstimation ELSE 0
    IN  Max(inAmount * action.inPriceUSD, outAmount * action.outPriceUSD)

\* txStatus: TRUE when THORNode returned the transaction with its coins
getInputAmountAndSizeInUSD(action, txStatus) ==
    IF txStatus
    THEN calculateSizeFromThornodeTx(action.coinAmount, action.inPriceUSD)
    ELSE getStreamSwapSizeInUSD(action)

\* the StreamSwapOpportunity built by handleStreamSwap
Opportunity(action, txStatus) ==
    [txHash |-> action.txID,
     size |-> getInputAmountAndSizeInUSD(action, txStatus),
     tradeDirection |-> action.direction,
     estimatedDurationSeconds |-> estimatedDurationSeconds(action),
     status |-> action.status]

\* faulty variant: the status of the action is not looked at
IsValidOpportunity_AnyStatus(opportunity, minSize, minDuration) ==
    /\ ~(opportunity.size < minSize)
    /\ ~(opportunity.estimatedDurationSeconds < minDuration)

\* handleStreamSwapDetected: the three early returns
IsValidOpportunity(opportunity, minSize, minDuration) ==
    /\ ~(opportunity.status # "pending")
    /\ ~(opportunity.size < minSize)
    /\ ~(opportunity.estimatedDurationSeconds < minDuration)

\* ---------------------------------------------------------------- venue
\* An order book: levels <<price, volume>>, best first.
BookDeep == [bids |-> << <<100, 10000>> >>, asks |-> << <<100, 10000>> >>]
BookThin == [bids |-> << <<100, 2000>> >>, asks |-> << <<100, 2000>> >>]
BookSlip == [bids |-> << <<100, 1000>>, <<80, 10000>> >>,
             asks |-> << <<100, 1000>>, <<120, 10000>> >>]
BookEmpty == [bids |-> <<>>, asks |-> <<>>]
Books == {BookDeep, BookThin, BookSlip, BookEmpty}
\* getOrderBook threw
Failed == [failed |-> TRUE]
DepthResults == Books \cup {Failed}

\* the for loop of simulateMarketTrade: st = [remaining, weightedPrice, filled]
RECURSIVE WalkLevels(_, _)
WalkLevels(levels, st) ==
    IF Len(levels) = 0 \/ st.remaining <= 0 THEN st
    ELSE LET price == Head(levels)[1]
             volume == Head(levels)[2]
             tradeVol == Min(volume, st.remaining)
         IN  WalkLevels(Tail(levels),
                        [remaining |-> st.remaining - tradeVol,
                         weightedPrice |-> st.weightedPrice + tradeVol * price,
                         filled |-> st.filled + tradeVol])

\* KrakenTradeService.simulateMarketTrade
simulateMarketTrade(book, side, qty) ==
    LET levels == IF side = "buy" THEN book.asks ELSE book.bids
        w == WalkLevels(levels, [remaining |-> qty, weightedPrice |-> 0, filled |-> 0])
    IN  IF w.filled = 0
        THEN [executed |-> FALSE, avgPrice |-> 0, filledQty |-> 0,
              weightedPrice |-> 0, bestLevel |-> 0]
        ELSE [executed |-> TRUE, avgPrice |-> w.weightedPrice \div w.filled,
              filledQty |-> w.filled, weightedPrice |-> w.weightedPrice,
              bestLevel |-> levels[1][1]]

Abs(x) == IF x < 0 THEN -x ELSE x

\* faulty variant: no plan is rejected for slippage
SlippageTooHigh_Off(sim) == FALSE

\* Math.abs(simulation.slippagePct) > MAX_SLIPPAGE_PCT, where slippagePct is
\* (avgPrice - bestLevel) / bestLevel * 100 up to its sign
SlippageTooHigh(sim) ==
    Abs(sim.weightedPrice - sim.bestLevel * sim.filledQty) * 100
        > MAX_SLIPPAGE_PCT * sim.bestLevel * sim.filledQty

\* ---------------------------------------------------------------- planner
\* faulty variant: the sides are exchanged
determineKrakenSide_Inverted(tradeDirection) ==
    IF tradeDirection = "long" THEN "sell" ELSE "buy"

determineKrakenSide(tradeDirection) ==
    IF tradeDirection = "long" THEN "buy" ELSE "sell"

\* calculateTradeSize resumed with the depth: TADE_SIZE_$ / midPrice, or the
\* fallback when the fetch or the read of the best levels threw; the size is
\* taken to cents (* 100) and the quantity to 1/1000 RUJI (* 1000)
calculateTradeSize(depth) ==
    IF depth = Failed THEN FALLBACK_QTY
    ELSE IF Len(depth.bids) = 0 \/ Len(depth.asks) = 0 THEN FALLBACK_QTY
    ELSE (TADE_SIZE * 100 * 1000 * 2) \div (depth.bids[1][1] + depth.asks[1][1])

\* -------------------------------------------------------------- lifecycle
\* faulty variant: the buffer is not subtracted
exitDelayMs_NoBuffer(duration) == duration * 1000

\* scheduleExit: (estimatedDurationSeconds - EXIT_BUFFER_SECONDS) * 1000
exitDelayMs(duration) == (duration - EXIT_BUFFER_SECONDS) * 1000

\* placeMarketOrder answered with an order id (live mode: no avgPrice key)
OrderPlaced == [orderId |-> 1]
\* what a placeMarketOrder of the exit can come back with: the book of its
\* simulation or a failed fetch (dry run), the placed order or a failed post
ExitReplies == DepthResults \cup {OrderPlaced}

\* placeMarketOrder, given what the venue answered (Failed stands for a throw)
placeMarketOrder(side, qty, reply) ==
    IF reply = Failed \/ reply = OrderPlaced THEN reply
    ELSE simulateMarketTrade(reply, side, qty)

\* the venue result reports a fill: a simulation with executed = true (a live
\* AddOrder result carries an order id and no fill)
isFilled(exitResult) == "executed" \in DOMAIN exitResult /\ exitResult.executed

\* executeExit: the price of the exit order
exitPrice(exitResult, entryOrder) ==
    IF "avgPrice" \in DOMAIN exitResult THEN exitResult.avgPrice ELSE entryOrder.price

\* faulty variant: the side is ignored
calculatePnL_Unsigned(entryOrder, exitOrder) ==
    (exitOrder.price - entryOrder.price) * entryOrder.qty

\* TradeLifecycleService.calculatePnL
calculatePnL(entryOrder, exitOrder) ==
    LET qty == entryOrder.qty
        entryPrice == entryOrder.price
        exitPrice_ == exitOrder.price
    IN  IF entryOrder.side = "buy"
        THEN (exitPrice_ - entryPrice) * qty
        ELSE (entryPrice - exitPrice_) * qty

Remove(s, i) == SubSeq(s, 1, i - 1) \o SubSeq(s, i + 1, Len(s))

\* a fetch started at one tick is over before the tick this many ticks later
MaxAge == API_TIMEOUT_MS \div pollIntervalMs

VARIABLES
    ledger,               \* what the ledger index holds (fixed by Init)
    isRunning,
    pollingInterval,      \* TRUE when the interval is set
    startPc,              \* startPolling: "new", "initialPoll", "done"
    stopped,              \* None, or pollsStarted when stopPolling ran (history)
    inflight,             \* polls awaiting their fetch: ages in ticks
    pollsStarted,
    pollsDone,
    lastBatch,            \* the response the latest poll received (history)
    lastEmitted,          \* the actions the latest poll emitted, in order (history)
    fetchFailed,          \* TRUE when the request of the latest poll failed (history)
    processedTxIds,       \* the Set, in insertion order
    lastProcessedHeight,
    actionDetected,       \* number of 'action.detected' per txID (history)
    detectQ,              \* 'action.detected' handlers awaiting THORNode
    minOpportunitySize,   \* TradeConfigService
    minOpportunityDurationS,
    configCall,           \* the last TradeConfigService setter call and whether it threw (history)
    streamswapDetected,   \* number of 'streamswap.detected' per txHash (history)
    validDetected,        \* number of 'validopportunity.detected' per txHash (history)
    lastOpportunity,      \* the latest Opportunity built (history)
    plans,                \* handleValidOpportunityDetected calls at an await
    entryOrders,          \* number of entry orders placed per txHash (history)
    entryLog,             \* the entry orders placed (history)
    slippageRejects,      \* txHashes of the plans rejected for slippage (history)
    scheduleCalls,        \* calls of scheduleExit (history)
    lastSchedule,         \* arguments of the latest scheduleExit (history)
    activeTrades,         \* the Map, None where there is no entry
    timers,               \* exit timers set and not yet fired or cleared
    nextTimer,
    exitScheduled,        \* number of 'trade.exit.scheduled' per trade (history)
    exiting,              \* executeExit calls awaiting placeMarketOrder
    exitOrders,           \* number of exit orders sent to the venue per trade (history)
    exitCompleted,        \* number of 'trade.exit.completed' per trade (history)
    lastExit,             \* the execution record the latest executeExit closed (history)
    destroyed,            \* TRUE once onModuleDestroy of the lifecycle service ran (history)
    trades,               \* TradeService: the Map, None where there is no trade
    swapAction,           \* the action given to getSwapDirection
    swapDirection,        \* what getSwapDirection returned for it, Unset before
    swapTx,               \* txHash of the action handleStreamSwap is called with
    swapLog,              \* the finished handleStreamSwap calls (history)
    apiKeys,              \* ApiKeyService: the stored keys, None when there are none
    dryRunMode,           \* TRADE_CONFIG_CONSTANTS.DRY_RUN_MODE (fixed by Init)
    now,                  \* Date.now(), in milliseconds
    requests,             \* the HTTP requests sent to the venue, in order (history)
    lastCall,             \* the latest call of KrakenTradeService and its result (history)
    sizeInput,            \* the action and status lookup given to the sizing
    sizeResult            \* the size computed for it, Unset before

pollerVars == <<isRunning, pollingInterval, startPc, stopped, inflight, pollsStarted,
                pollsDone, lastBatch, lastEmitted, fetchFailed, processedTxIds, lastProcessedHeight,
                actionDetected>>
configVars == <<minOpportunitySize, minOpportunityDurationS, configCall>>
detectorVars == <<streamswapDetected, validDetected, lastOpportunity>>
plannerVars == <<plans, entryOrders, entryLog, slippageRejects>>
scheduleVars == <<scheduleCalls, lastSchedule, activeTrades, timers, nextTimer,
                  exitScheduled>>
exitVars == <<exiting, exitOrders, exitCompleted, lastExit, destroyed>>
lifecycleVars == <<scheduleVars, exitVars>>
venueVars == <<apiKeys, dryRunMode, now, requests, lastCall>>
sizingVars == <<sizeInput, sizeResult>>
swapVars == <<swapAction, swapDirection, swapTx, swapLog>>
serviceVars == <<trades, swapVars, venueVars, sizingVars>>
vars == <<ledger, pollerVars, detectQ, configVars, detectorVars, plannerVars,
          lifecycleVars, serviceVars>>

Bump(f, x) == [f EXCEPT ![x] = @ + 1]

RECURSIVE BumpAll(_, _)
BumpAll(f, s) == IF Len(s) = 0 THEN f ELSE BumpAll(Bump(f, Head(s)), Tail(s))

TxIdsOf(s) == [k \in DOMAIN s |-> s[k].txID]

\* every stage of the pipeline before its first step, the thresholds aside
InitStages ==
    /\ ledger \in Ledgers
    /\ isRunning = FALSE
    /\ pollingInterval = FALSE
    /\ startPc = "new"
    /\ stopped = None
    /\ inflight = {}
    /\ pollsStarted = 0
    /\ pollsDone = 0
    /\ lastBatch = <<>>
    /\ lastEmitted = <<>>
    /\ fetchFailed = FALSE
    /\ processedTxIds = <<>>
    /\ lastProcessedHeight = 0
    /\ actionDetected = [t \in TxIds |-> 0]
    /\ detectQ = [a \in Catalog |-> 0]
    /\ configCall = None
    /\ streamswapDetected = [t \in TxIds |-> 0]
    /\ validDetected = [t \in TxIds |-> 0]
    /\ lastOpportunity = None
    /\ plans = <<>>
    /\ entryOrders = [t \in TxIds |-> 0]
    /\ entryLog = {}
    /\ slippageRejects = {}
    /\ scheduleCalls = 0
    /\ lastSchedule = None
    /\ activeTrades = [t \in TxIds |-> None]
    /\ timers = {}
    /\ nextTimer = 1
    /\ exitScheduled = [t \in TxIds |-> 0]
    /\ exiting = <<>>
    /\ exitOrders = [t \in TxIds |-> 0]
    /\ exitCompleted = [t \in TxIds |-> 0]
    /\ lastExit = None
    /\ destroyed = FALSE

\* the state after construction of the polling, detection and trading
\* services, with the default thresholds of TradeConfigService
InitPipeline ==
    /\ InitStages
    /\ minOpportunitySize = MIN_OPPORTUNITY_SIZE
    /\ minOpportunityDurationS = MIN_OPPORTUNITY_DURATION_S

Unset == [unset |-> TRUE]

\* the venue service before any call, in the default mode
IdleVenue ==
    /\ apiKeys = None
    /\ dryRunMode = TRUE
    /\ now = 0
    /\ requests = <<>>
    /\ lastCall = None

\* no size asked for
IdleSizing ==
    /\ sizeInput = None
    /\ sizeResult = Unset

Init ==
    /\ InitPipeline
    /\ trades = [t \in TxIds |-> None]
    /\ swapAction = None
    /\ swapDirection = Unset
    /\ swapTx = NoTx
    /\ swapLog = <<>>
    /\ IdleVenue
    /\ IdleSizing

\* onApplicationBootstrap -> startPolling, up to the await of the first poll
StartPolling ==
    /\ startPc = "new"
    /\ ~isRunning
    /\ isRunning' = TRUE
    /\ startPc' = "initialPoll"
    /\ inflight' = {0}
    /\ pollsStarted' = pollsStarted + 1
    /\ UNCHANGED <<serviceVars, stopped, ledger, pollingInterval, pollsDone, lastBatch, lastEmitted, fetchFailed,
                   processedTxIds, lastProcessedHeight, actionDetected, detectQ,
                   configVars, detectorVars, plannerVars, lifecycleVars>>

\* startPolling resumed after the first poll: setInterval
SetInterval ==
    /\ startPc = "initialPoll"
    /\ inflight = {}
    /\ startPc' = "done"
    /\ pollingInterval' = TRUE
    /\ UNCHANGED <<serviceVars, stopped, ledger, isRunning, inflight, pollsStarted, pollsDone, lastBatch,
                   lastEmitted, fetchFailed, processedTxIds, lastProcessedHeight, actionDetected, detectQ,
                   configVars, detectorVars, plannerVars, lifecycleVars>>

\* the interval fires: poll() up to the await of getRecentActions
Tick ==
    /\ pollingInterval
    /\ pollsStarted < MaxPolls
    /\ \A a \in inflight : a < MaxAge
    /\ inflight' = {a + 1 : a \in inflight} \cup {0}
    /\ pollsStarted' = pollsStarted + 1
    /\ UNCHANGED <<serviceVars, stopped, ledger, isRunning, pollingInterval, startPc, pollsDone, lastBatch,
                   lastEmitted, fetchFailed, processedTxIds, lastProcessedHeight, actionDetected, detectQ,
                   configVars, detectorVars, plannerVars, lifecycleVars>>

\* poll() resumed with what getRecentActions returns for the response
PollResponse(age, response) ==
    /\ age \in inflight
    /\ inflight' = inflight \ {age}
    /\ pollsDone' = pollsDone + 1
    /\ fetchFailed' = (response = FetchFailed)
    /\ LET actions == getRecentActions(response)
       IN  IF Len(actions) = 0
           THEN /\ lastBatch' = <<>>
                /\ lastEmitted' = <<>>
                /\ UNCHANGED <<processedTxIds, lastProcessedHeight, actionDetected,
                               detectQ>>
           ELSE LET sorted == sortedActions(actions)
                    r == PollLoop(sorted, [processed |-> processedTxIds,
                                           maxHeightSeen |-> lastProcessedHeight,
                                           emitted |-> <<>>])
                IN  /\ lastBatch' = actions
                    /\ lastEmitted' = r.emitted
                    /\ processedTxIds' = Trim(r.processed)
                    /\ lastProcessedHeight' = r.maxHeightSeen
                    /\ actionDetected' = BumpAll(actionDetected, TxIdsOf(r.emitted))
                    /\ detectQ' = BumpAll(detectQ, r.emitted)
    /\ UNCHANGED <<serviceVars, stopped, ledger, isRunning, pollingInterval, startPc, pollsStarted,
                   configVars, detectorVars, plannerVars, lifecycleVars>>

\* onModuleDestroy -> stopPolling, called once startPolling has been called;
\* not between the end of the initial poll and the setInterval that follows
\* it in the same turn of the event loop
StopPolling ==
    /\ startPc # "new"
    /\ ~(startPc = "initialPoll" /\ inflight = {})
    /\ stopped = None
    /\ isRunning' = FALSE
    /\ pollingInterval' = FALSE
    /\ stopped' = [pollsStarted |-> pollsStarted]
    /\ UNCHANGED <<serviceVars, ledger, startPc, inflight, pollsStarted, pollsDone, lastBatch,
                   lastEmitted, fetchFailed, processedTxIds, lastProcessedHeight,
                   actionDetected, detectQ, configVars, detectorVars, plannerVars,
                   lifecycleVars>>

\* TradeConfigService.setMinOpportunitySize$ (it throws on value <= 0)
SetMinOpportunitySize(value) ==
    /\ minOpportunitySize' = IF value <= 0 THEN minOpportunitySize ELSE value
    /\ UNCHANGED <<serviceVars, ledger, pollerVars, detectQ, minOpportunityDurationS, configCall,
                   detectorVars,
                   plannerVars, lifecycleVars>>

\* TradeConfigService.setMinOpportunityDurationS (it throws on value <= 0)
SetMinOpportunityDurationS(value) ==
    /\ minOpportunityDurationS' = IF value <= 0 THEN minOpportunityDurationS ELSE value
    /\ UNCHANGED <<serviceVars, ledger, pollerVars, detectQ, minOpportunitySize, configCall,
                   detectorVars,
                   plannerVars, lifecycleVars>>

\* handleActionDetected resumed with the THORNode status: handleStreamSwap,
\* then, inside its emit, handleStreamSwapDetected, then, inside that emit,
\* handleValidOpportunityDetected up to its first await
DetectorHandle(action, txStatus) ==
    /\ detectQ[action] > 0
    /\ detectQ' = [detectQ EXCEPT ![action] = @ - 1]
    /\ IF ~isStreamSwap(action)
       THEN UNCHANGED <<detectorVars, plans>>
       ELSE LET opportunity == Opportunity(action, txStatus)
            IN  /\ streamswapDetected' = Bump(streamswapDetected, opportunity.txHash)
                /\ lastOpportunity' = opportunity
                /\ IF IsValidOpportunity(opportunity, minOpportunitySize,
                                         minOpportunityDurationS)
                   THEN /\ validDetected' = Bump(validDetected, opportunity.txHash)
                        /\ plans' = Append(plans, [opportunity |-> opportunity,
                                                   pc |-> "size", tradeQty |-> 0,
                                                   sim |-> None])
                   ELSE UNCHANGED <<validDetected, plans>>
    /\ UNCHANGED <<serviceVars, ledger, pollerVars, configVars, entryOrders, entryLog, slippageRejects,
                   lifecycleVars>>

\* calculateTradeSize resumed with its depth; next await: getOrderBook
PlannerSize(i, depth) ==
    /\ i \in DOMAIN plans
    /\ plans[i].pc = "size"
    /\ plans' = [plans EXCEPT ![i].pc = "depth",
                              ![i].tradeQty = calculateTradeSize(depth)]
    /\ UNCHANGED <<serviceVars, ledger, pollerVars, detectQ, configVars, detectorVars, entryOrders,
                   entryLog, slippageRejects, lifecycleVars>>

\* handleValidOpportunityDetected resumed with the depth: the liquidity and
\* slippage checks; next await: placeMarketOrder
PlannerDepth(i, depth) ==
    /\ i \in DOMAIN plans
    /\ plans[i].pc = "depth"
    /\ IF depth = Failed
       THEN plans' = Remove(plans, i) /\ UNCHANGED slippageRejects
       ELSE LET krakenSide == determineKrakenSide(plans[i].opportunity.tradeDirection)
                simulation == simulateMarketTrade(depth, krakenSide, plans[i].tradeQty)
            IN  IF ~simulation.executed
                THEN plans' = Remove(plans, i) /\ UNCHANGED slippageRejects
                ELSE IF SlippageTooHigh(simulation)
                THEN /\ plans' = Remove(plans, i)
                     /\ slippageRejects' = slippageRejects \cup {plans[i].opportunity.txHash}
                ELSE /\ plans' = [plans EXCEPT ![i].pc = "order", ![i].sim = simulation]
                     /\ UNCHANGED slippageRejects
    /\ UNCHANGED <<serviceVars, ledger, pollerVars, detectQ, configVars, detectorVars, entryOrders,
                   entryLog, lifecycleVars>>

\* handleValidOpportunityDetected resumed after placeMarketOrder (placed is
\* FALSE when it threw), then scheduleExit, which has no await of its own
PlannerOrder(i, placed) ==
    /\ i \in DOMAIN plans
    /\ plans[i].pc = "order"
    /\ plans' = Remove(plans, i)
    /\ IF ~placed
       THEN UNCHANGED <<entryOrders, entryLog, scheduleVars>>
       ELSE LET opportunity == plans[i].opportunity
                tradeId == opportunity.txHash
                entryOrder == [side |-> determineKrakenSide(opportunity.tradeDirection),
                               qty |-> plans[i].tradeQty,
                               price |-> plans[i].sim.avgPrice]
                delay == exitDelayMs(opportunity.estimatedDurationSeconds)
            IN  /\ entryOrders' = Bump(entryOrders, tradeId)
                /\ entryLog' = entryLog \cup
                      {[txHash |-> tradeId, qty |-> plans[i].tradeQty,
                        filledQty |-> plans[i].sim.filledQty,
                        duration |-> opportunity.estimatedDurationSeconds]}
                /\ scheduleCalls' = scheduleCalls + 1
                /\ lastSchedule' = [tradeId |-> tradeId,
                                    duration |-> opportunity.estimatedDurationSeconds]
                /\ IF delay <= 0
                   THEN UNCHANGED <<activeTrades, timers, nextTimer, exitScheduled>>
                   ELSE /\ timers' = timers \cup {[id |-> nextTimer, tradeId |-> tradeId,
                                                   delayMs |-> delay]}
                        /\ nextTimer' = nextTimer + 1
                        /\ activeTrades' = [activeTrades EXCEPT ![tradeId] =
                                               [timer |-> nextTimer,
                                                entryOrder |-> entryOrder]]
                        /\ exitScheduled' = Bump(exitScheduled, tradeId)
    /\ UNCHANGED <<serviceVars, ledger, pollerVars, detectQ, configVars, detectorVars, exitVars,
                   slippageRejects>>

\* faulty variant: the timer fires and executeExit is not called
TimerFire_Dropped(tm) ==
    /\ tm \in timers
    /\ timers' = timers \ {tm}
    /\ UNCHANGED <<serviceVars, ledger, pollerVars, detectQ, configVars, detectorVars, plannerVars,
                   scheduleCalls, lastSchedule, activeTrades, nextTimer, exitScheduled,
                   exitVars>>

\* an exit timer fires: executeExit up to the await of placeMarketOrder
TimerFire(tm) ==
    /\ tm \in timers
    /\ timers' = timers \ {tm}
    /\ LET activeTrade == activeTrades[tm.tradeId]
       IN  IF activeTrade = None
           THEN UNCHANGED <<exiting, exitOrders>>
           ELSE /\ exiting' = Append(exiting, [tradeId |-> tm.tradeId,
                                               timer |-> activeTrade.timer,
                                               entryOrder |-> activeTrade.entryOrder])
                /\ exitOrders' = Bump(exitOrders, tm.tradeId)
    /\ UNCHANGED <<serviceVars, ledger, pollerVars, detectQ, configVars, detectorVars, plannerVars,
                   scheduleCalls, lastSchedule, activeTrades, nextTimer, exitScheduled,
                   exitCompleted, lastExit, destroyed>>

\* executeExit resumed after placeMarketOrder: the exit order, the PnL and
\* 'trade.exit.completed', or the catch block when the call threw
ExitResume(k, reply) ==
    /\ k \in DOMAIN exiting
    /\ exiting' = Remove(exiting, k)
    /\ LET tradeId == exiting[k].tradeId
           entryOrder == exiting[k].entryOrder
           exitSide == IF entryOrder.side = "buy" THEN "sell" ELSE "buy"
           exitResult == placeMarketOrder(exitSide, entryOrder.qty, reply)
           exitOrder == [side |-> exitSide, qty |-> entryOrder.qty,
                         price |-> exitPrice(exitResult, entryOrder)]
       IN  IF exitResult = Failed
           THEN /\ IF activeTrades[tradeId] # None
                   THEN /\ lastExit' = [tradeId |-> tradeId, status |-> "failed",
                                        entryOrder |-> activeTrades[tradeId].entryOrder]
                        /\ activeTrades' = [activeTrades EXCEPT ![tradeId] = None]
                   ELSE UNCHANGED <<lastExit, activeTrades>>
                /\ UNCHANGED exitCompleted
           ELSE /\ lastExit' = [tradeId |-> tradeId, status |-> "completed",
                                entryOrder |-> entryOrder, exitOrder |-> exitOrder,
                                pnl |-> calculatePnL(entryOrder, exitOrder),
                                filled |-> isFilled(exitResult)]
                /\ exitCompleted' = Bump(exitCompleted, tradeId)
                /\ activeTrades' = [activeTrades EXCEPT ![tradeId] = None]
    /\ UNCHANGED <<serviceVars, ledger, pollerVars, detectQ, configVars, detectorVars, plannerVars,
                   scheduleCalls, lastSchedule, timers, nextTimer, exitScheduled,
                   exitOrders, destroyed>>

\* what cancelExit(tradeId) returns
cancelExit(tradeId) == activeTrades[tradeId] # None

\* TradeLifecycleService.cancelExit
CancelExit(tradeId) ==
    /\ IF cancelExit(tradeId)
       THEN /\ timers' = {tm \in timers : tm.id # activeTrades[tradeId].timer}
            /\ activeTrades' = [activeTrades EXCEPT ![tradeId] = None]
       ELSE UNCHANGED <<timers, activeTrades>>
    /\ UNCHANGED <<serviceVars, ledger, pollerVars, detectQ, configVars, detectorVars,
                   plannerVars, scheduleCalls, lastSchedule, nextTimer, exitScheduled,
                   exitVars>>

\* TradeLifecycleService.onModuleDestroy
OnModuleDestroy ==
    /\ timers' = {tm \in timers :
                     \A t \in TxIds : activeTrades[t] # None => tm.id # activeTrades[t].timer}
    /\ activeTrades' = [t \in TxIds |-> None]
    /\ destroyed' = TRUE
    /\ UNCHANGED <<serviceVars, ledger, pollerVars, detectQ, configVars, detectorVars,
                   plannerVars, scheduleCalls, lastSchedule, nextTimer, exitScheduled,
                   exiting, exitOrders, exitCompleted, lastExit>>

\* ----------------------------------------------------------- TradeService
TradeStates == <<"detected", "planned", "submitted", "confirmed", "exiting",
                 "completed", "failed">>

\* the opportunities createTrade is called with
TradeOpportunities == {Opportunity(a, TRUE) : a \in {A1, A2, A3}}

\* TradeService.createTrade
CreateTrade(opportunity) ==
    /\ trades' = [trades EXCEPT ![opportunity.txHash] =
                     [id |-> opportunity.txHash,
                      direction |-> opportunity.tradeDirection,
                      state |-> "detected"]]
    /\ UNCHANGED <<ledger, pollerVars, detectQ, configVars, detectorVars, plannerVars,
                   lifecycleVars, swapVars, venueVars, sizingVars>>

\* TradeService.updateState (it throws when the trade is not found)
UpdateState(id, newState) ==
    /\ trades' = IF trades[id] = None THEN trades
                 ELSE [trades EXCEPT ![id].state = newState]
    /\ UNCHANGED <<ledger, pollerVars, detectQ, configVars, detectorVars, plannerVars,
                   lifecycleVars, swapVars, venueVars, sizingVars>>

NextTrades ==
    \/ \E opportunity \in TradeOpportunities : CreateTrade(opportunity)
    \/ \E id \in TxIds : \E k \in DOMAIN TradeStates : UpdateState(id, TradeStates[k])

SpecTrades == Init /\ [][NextTrades]_vars

\* ------------------------------------------------------- getSwapDirection
\* the state before a call of getSwapDirection on one action
InitDirection ==
    /\ InitPipeline
    /\ trades = [t \in TxIds |-> None]
    /\ swapAction \in SwapActions
    /\ swapDirection = Unset
    /\ swapTx = NoTx
    /\ swapLog = <<>>
    /\ IdleVenue
    /\ IdleSizing

\* MidgardService.getSwapDirection(swapAction)
GetSwapDirection ==
    /\ swapDirection = Unset
    /\ swapDirection' = getSwapDirection(swapAction)
    /\ UNCHANGED <<ledger, pollerVars, detectQ, configVars, detectorVars, plannerVars,
                   lifecycleVars, trades, swapAction, swapTx, swapLog, venueVars,
                   sizingVars>>

SpecDirection == InitDirection /\ [][GetSwapDirection]_vars

\* -------------------------------------------------------- handleStreamSwap
\* the state when the first stream swap reaches handleStreamSwap
InitClassify ==
    /\ InitPipeline
    /\ trades = [t \in TxIds |-> None]
    /\ swapAction \in SwapActions
    /\ swapDirection = Unset
    /\ swapTx = 1
    /\ swapLog = <<>>
    /\ IdleVenue
    /\ IdleSizing

\* DetectorService.handleStreamSwap(swapTx, swapAction): reading
\* swapAssets.from of a null result throws, the catch logs, nothing is emitted
HandleStreamSwap ==
    /\ swapTx # NoTx
    /\ swapDirection = Unset
    /\ LET swapAssets == getSwapAssets(swapAction)
       IN  /\ swapDirection' = swapAssets
           /\ swapLog' = Append(swapLog, [tx |-> swapTx, action |-> swapAction,
                                          handler |-> "assets",
                                          emitted |-> swapAssets # None])
           /\ streamswapDetected' = IF swapAssets = None THEN streamswapDetected
                                    ELSE Bump(streamswapDetected, swapTx)
    /\ UNCHANGED <<ledger, pollerVars, detectQ, configVars, validDetected, lastOpportunity,
                   plannerVars, lifecycleVars, trades, swapAction, swapTx, venueVars,
                   sizingVars>>

\* the handleStreamSwap that calls getSwapDirection: returns on a null
\* direction and on missing streaming metadata, emits otherwise
HandleStreamSwapByDirection ==
    /\ swapTx # NoTx
    /\ swapDirection = Unset
    /\ LET direction == getSwapDirection(swapAction)
           emits == direction # None /\ swapAction.meta # None
       IN  /\ swapDirection' = direction
           /\ swapLog' = Append(swapLog, [tx |-> swapTx, action |-> swapAction,
                                          handler |-> "direction", emitted |-> emits])
           /\ streamswapDetected' = IF emits THEN Bump(streamswapDetected, swapTx)
                                    ELSE streamswapDetected
    /\ UNCHANGED <<ledger, pollerVars, detectQ, configVars, validDetected, lastOpportunity,
                   plannerVars, lifecycleVars, trades, swapAction, swapTx, venueVars,
                   sizingVars>>

\* the next 'action.detected' event with a stream swap, of another transaction
NextStreamSwap(action) ==
    /\ swapDirection # Unset
    /\ swapTx < MaxSwaps
    /\ swapTx' = swapTx + 1
    /\ swapAction' = action
    /\ swapDirection' = Unset
    /\ UNCHANGED <<ledger, pollerVars, detectQ, configVars, detectorVars, plannerVars,
                   lifecycleVars, trades, swapLog, venueVars, sizingVars>>

NextClassify ==
    \/ HandleStreamSwap
    \/ HandleStreamSwapByDirection
    \/ \E action \in SwapSamples : NextStreamSwap(action)

SpecClassify == InitClassify /\ [][NextClassify]_vars

\* ------------------------------------------------- sizing on JavaScript numbers
\* A JavaScript number: finite (v its value), NaN, or an infinity (v its sign).
\* The integer operators calculateSizeFromThornodeTx, getStreamSwapSizeInUSD
\* and getInputAmountAndSizeInUSD above are the restriction of the ones below
\* to well-formed finite amounts and prices.
Fin(n) == [k |-> "fin", v |-> n]
NaN == [k |-> "nan", v |-> 0]
Inf(sign) == [k |-> "inf", v |-> sign]

Sgn(n) == IF n > 0 THEN 1 ELSE IF n < 0 THEN -1 ELSE 0

isFinite(x) == x.k = "fin"

\* x <= 0 (false for NaN)
LeZero(x) == x.k # "nan" /\ x.v <= 0

\* a * b
Mul(a, b) ==
    IF a.k = "nan" \/ b.k = "nan" THEN NaN
    ELSE IF a.k = "fin" /\ b.k = "fin" THEN Fin(a.v * b.v)
    ELSE IF Sgn(a.v) * Sgn(b.v) = 0 THEN NaN
    ELSE Inf(Sgn(a.v) * Sgn(b.v))

\* a < b (false when one is NaN)
Less(a, b) ==
    /\ a.k # "nan" /\ b.k # "nan"
    /\ IF a.k = "inf" THEN a.v < 0 /\ b # a
       ELSE IF b.k = "inf" THEN b.v > 0
       ELSE a.v < b.v

\* Math.max(a, b)
MathMax(a, b) ==
    IF a.k = "nan" \/ b.k = "nan" THEN NaN
    ELSE IF Less(a, b) THEN b ELSE a

\* A string is a sequence of symbols: the digits, "-", "x" (any other
\* character) and "Infinity" (the word, as one symbol).
Digits == <<"0", "1", "2", "3", "4", "5", "6", "7", "8", "9">>
IsDigit(c) == \E d \in DOMAIN Digits : Digits[d] = c
DigitValue(c) == (CHOOSE d \in DOMAIN Digits : Digits[d] = c) - 1

\* the value of the leading digits of s after acc, FALSE when there are none
RECURSIVE LeadingDigits(_, _, _)
LeadingDigits(s, acc, seen) ==
    IF Len(s) > 0 /\ IsDigit(Head(s))
    THEN LeadingDigits(Tail(s), acc * 10 + DigitValue(Head(s)), TRUE)
    ELSE IF seen THEN Fin(acc) ELSE NaN

parseUnsigned(s) ==
    IF Len(s) > 0 /\ Head(s) = "Infinity" THEN Inf(1) ELSE LeadingDigits(s, 0, FALSE)

\* parseFloat: the longest numeric prefix, NaN when there is none
parseFloat(s) ==
    IF Len(s) > 0 /\ Head(s) = "-"
    THEN LET x == parseUnsigned(Tail(s))
         IN  IF x.k = "nan" THEN NaN ELSE [x EXCEPT !.v = -x.v]
    ELSE parseUnsigned(s)

\* formatAmount: parseFloat(amount.toString()) / divisor; finite values are
\* kept in units of the divisor
formatAmount(amount) == parseFloat(amount)

\* a field that is not there
Missing == <<"undefined">>
Zero == <<"0">>

\* calculateSizeFromThornodeTx(txStatus, assetPriceUSD); coins are the amounts
\* of txStatus.tx.coins, and the toString of a missing amount throws
calculateSizeFromThornodeTxJs(coins, assetPriceUSD) ==
    IF Len(coins) = 0 THEN Fin(0)
    ELSE IF coins[1] = Missing THEN Fin(0)
    ELSE LET amount == formatAmount(coins[1])
         IN  IF ~isFinite(amount) \/ ~isFinite(assetPriceUSD)
                  \/ LeZero(amount) \/ LeZero(assetPriceUSD)
             THEN Fin(0)
             ELSE LET sizeUSD == Mul(amount, assetPriceUSD)
                  IN  IF isFinite(sizeUSD) THEN sizeUSD ELSE Fin(0)

OrElse(field, default) == IF field = Missing THEN default ELSE field

\* getStreamSwapSizeInUSD(action)
getStreamSwapSizeInUSDJs(input) ==
    LET inAmount == formatAmount(OrElse(input.deposited, Zero))
        outAmount == formatAmount(OrElse(input.outEstimation, Zero))
    IN  MathMax(Mul(inAmount, parseFloat(OrElse(input.inPriceUSD, Zero))),
                Mul(outAmount, parseFloat(OrElse(input.outPriceUSD, Zero))))

\* DetectorService.getInputAmountAndSizeInUSD: the $size it returns;
\* input.coins is empty when the status lookup gave null or no coins
getInputAmountAndSizeInUSDJs(input) ==
    IF Len(input.coins) > 0
    THEN calculateSizeFromThornodeTxJs(
             input.coins,
             parseFloat(IF input.inPriceUSD = Missing \/ input.inPriceUSD = <<>>
                        THEN Zero ELSE input.inPriceUSD))
    ELSE getStreamSwapSizeInUSDJs(input)

AmountStrings == {Missing, <<>>, <<"x">>, <<"0">>, <<"5">>, <<"-", "5">>, <<"Infinity">>}
PriceStrings == {Missing, <<>>, <<"0">>, <<"2">>, <<"-", "2">>, <<"Infinity">>}
SizeInputs ==
    [coins : {<<>>} \cup {<<c>> : c \in AmountStrings},
     inPriceUSD : PriceStrings,
     outPriceUSD : PriceStrings,
     deposited : AmountStrings,
     outEstimation : AmountStrings]

\* the state before the size of one action is computed
InitSizing ==
    /\ InitPipeline
    /\ trades = [t \in TxIds |-> None]
    /\ swapAction = None
    /\ swapDirection = Unset
    /\ swapTx = NoTx
    /\ swapLog = <<>>
    /\ IdleVenue
    /\ sizeInput \in SizeInputs
    /\ sizeResult = Unset

\* getInputAmountAndSizeInUSD on sizeInput
ComputeSize ==
    /\ sizeResult = Unset
    /\ sizeResult' = getInputAmountAndSizeInUSDJs(sizeInput)
    /\ UNCHANGED <<ledger, pollerVars, detectQ, configVars, detectorVars, plannerVars,
                   lifecycleVars, trades, swapVars, venueVars, sizeInput>>

SpecSizing == InitSizing /\ [][ComputeSize]_vars

\* ------------------------------------------- TradeConfigService on numbers
\* the test of both setters: value <= 0 || !isFinite(value)
RejectsThreshold(value) == LeZero(value) \/ ~isFinite(value)

\* what a caller can pass as a threshold
ThresholdValues == {Fin(-1), Fin(0), Fin(1), Fin(100), NaN, Inf(1)}

\* TradeConfigService after construction, the thresholds as JavaScript numbers
InitConfig ==
    /\ InitStages
    /\ minOpportunitySize = Fin(MIN_OPPORTUNITY_SIZE)
    /\ minOpportunityDurationS = Fin(MIN_OPPORTUNITY_DURATION_S)
    /\ trades = [t \in TxIds |-> None]
    /\ swapAction = None
    /\ swapDirection = Unset
    /\ swapTx = NoTx
    /\ swapLog = <<>>
    /\ IdleVenue
    /\ IdleSizing

\* TradeConfigService.setMinOpportunitySize$(value)
SetMinOpportunitySizeJs(value) ==
    /\ IF RejectsThreshold(value)
       THEN /\ configCall' = [op |-> "setMinOpportunitySize", threw |-> TRUE]
            /\ UNCHANGED minOpportunitySize
       ELSE /\ minOpportunitySize' = value
            /\ configCall' = [op |-> "setMinOpportunitySize", threw |-> FALSE]
    /\ UNCHANGED <<serviceVars, ledger, pollerVars, detectQ, minOpportunityDurationS,
                   detectorVars, plannerVars, lifecycleVars>>

\* TradeConfigService.setMinOpportunityDurationS(value)
SetMinOpportunityDurationSJs(value) ==
    /\ IF RejectsThreshold(value)
       THEN /\ configCall' = [op |-> "setMinOpportunityDurationS", threw |-> TRUE]
            /\ UNCHANGED minOpportunityDurationS
       ELSE /\ minOpportunityDurationS' = value
            /\ configCall' = [op |-> "setMinOpportunityDurationS", threw |-> FALSE]
    /\ UNCHANGED <<serviceVars, ledger, pollerVars, detectQ, minOpportunitySize,
                   detectorVars, plannerVars, lifecycleVars>>

\* TradeConfigService.setConfig(minSize, minDuration): the two setters one
\* after the other, the throw of either ends the call
SetConfig(minSize, minDuration) ==
    /\ IF RejectsThreshold(minSize)
       THEN /\ configCall' = [op |-> "setConfig", threw |-> TRUE]
            /\ UNCHANGED <<minOpportunitySize, minOpportunityDurationS>>
       ELSE /\ minOpportunitySize' = minSize
            /\ IF RejectsThreshold(minDuration)
               THEN /\ configCall' = [op |-> "setConfig", threw |-> TRUE]
                    /\ UNCHANGED minOpportunityDurationS
               ELSE /\ minOpportunityDurationS' = minDuration
                    /\ configCall' = [op |-> "setConfig", threw |-> FALSE]
    /\ UNCHANGED <<serviceVars, ledger, pollerVars, detectQ, detectorVars, plannerVars,
                   lifecycleVars>>

NextConfig ==
    \/ \E value \in ThresholdValues : SetMinOpportunitySizeJs(value)
    \/ \E value \in ThresholdValues : SetMinOpportunityDurationSJs(value)
    \/ \E minSize, minDuration \in ThresholdValues : SetConfig(minSize, minDuration)

SpecConfig == InitConfig /\ [][NextConfig]_vars

\* ------------------------------------------------- KrakenTradeService calls
KeyStrings == {"", "key"}
NoKeys == [apiKey |-> "", privateKey |-> ""]

\* ApiKeyService.getApiKeys on the stored keys: the empty pair when a stored
\* field is null or the empty string (the ciphertext of an empty key is empty)
getApiKeys(stored) ==
    IF stored = None THEN NoKeys
    ELSE IF stored.apiKey = "" \/ stored.privateKey = "" THEN NoKeys
    ELSE stored

KeysError == [error |-> "Kraken API keys not configured"]

\* faulty variant: the keys are not looked at
getAuthHeaders_NoCheck(stored, clock) ==
    [apiKey |-> getApiKeys(stored).apiKey, signedNonce |-> clock]

\* KrakenAuthService.getAuthHeaders: throws without keys, else the key and the
\* signature, made over the nonce Date.now()
getAuthHeaders(stored, clock) ==
    LET keys == getApiKeys(stored)
    IN  IF keys.apiKey = "" \/ keys.privateKey = "" THEN KeysError
        ELSE [apiKey |-> keys.apiKey, signedNonce |-> clock]

\* faulty variant: only the argument is looked at
IsDryRun_ArgOnly(dryRun, mode) == dryRun

\* placeMarketOrder: dryRun || TRADE_CONFIG_CONSTANTS.DRY_RUN_MODE
IsDryRun(dryRun, mode) == dryRun \/ mode

DepthRequest == [path |-> "/0/public/Depth"]
PrivateOps == [placeMarketOrder |-> "/0/private/AddOrder",
               getOrderStatus |-> "/0/private/QueryOrders",
               cancelOrder |-> "/0/private/CancelOrder",
               getBalance |-> "/0/private/Balance"]

\* the requests that carry a nonce
PrivateRequests(reqs) == SelectSeq(reqs, LAMBDA r : "nonce" \in DOMAIN r)

\* the authenticated part of placeMarketOrder, getOrderStatus, cancelOrder and
\* getBalance, up to the post: getAuthHeaders, then the body with its own
\* Date.now(), taken elapsed milliseconds after the one that was signed
PrivateRequest(op, dryRun, elapsed) ==
    LET headers == getAuthHeaders(apiKeys, now)
    IN  IF headers = KeysError
        THEN /\ lastCall' = [op |-> op, dryRun |-> dryRun, keyReads |-> 1,
                             result |-> KeysError]
             /\ UNCHANGED <<now, requests>>
        ELSE /\ Len(requests) < MaxRequests
             /\ now + elapsed <= MaxClock
             /\ now' = now + elapsed
             /\ requests' = Append(requests,
                                   [path |-> PrivateOps[op],
                                    signedNonce |-> headers.signedNonce,
                                    nonce |-> now + elapsed])
             /\ lastCall' = [op |-> op, dryRun |-> dryRun, keyReads |-> 1,
                             result |-> [posted |-> PrivateOps[op]]]

\* KrakenTradeService.placeMarketOrder(side, qty, dryRun), up to its result in
\* a dry run and up to the post otherwise; depth is what getOrderBook gives
PlaceMarketOrder(side, qty, dryRun, depth, elapsed) ==
    /\ IF IsDryRun(dryRun, dryRunMode)
       THEN /\ Len(requests) < MaxRequests
            /\ requests' = Append(requests, DepthRequest)
            /\ lastCall' = [op |-> "placeMarketOrder", dryRun |-> dryRun,
                            keyReads |-> 0,
                            result |-> placeMarketOrder(side, qty, depth)]
            /\ now' = now
       ELSE PrivateRequest("placeMarketOrder", dryRun, elapsed)
    /\ UNCHANGED <<ledger, pollerVars, detectQ, configVars, detectorVars, plannerVars,
                   lifecycleVars, trades, swapVars, apiKeys,
                   dryRunMode, sizingVars>>

\* getOrderStatus, cancelOrder, getBalance
PrivateCall(op, elapsed) ==
    /\ PrivateRequest(op, FALSE, elapsed)
    /\ UNCHANGED <<ledger, pollerVars, detectQ, configVars, detectorVars, plannerVars,
                   lifecycleVars, trades, swapVars, apiKeys,
                   dryRunMode, sizingVars>>

\* ApiKeyService.setApiKeys
SetApiKeys(apiKey, privateKey) ==
    /\ apiKeys' = [apiKey |-> apiKey, privateKey |-> privateKey]
    /\ UNCHANGED <<ledger, pollerVars, detectQ, configVars, detectorVars, plannerVars,
                   lifecycleVars, trades, swapVars, dryRunMode, now,
                   requests, lastCall, sizingVars>>

\* ApiKeyService.clearApiKeys
ClearApiKeys ==
    /\ apiKeys' = None
    /\ UNCHANGED <<ledger, pollerVars, detectQ, configVars, detectorVars, plannerVars,
                   lifecycleVars, trades, swapVars, dryRunMode, now,
                   requests, lastCall, sizingVars>>

\* a millisecond passes
ClockTick ==
    /\ now < MaxClock
    /\ now' = now + 1
    /\ UNCHANGED <<ledger, pollerVars, detectQ, configVars, detectorVars, plannerVars,
                   lifecycleVars, trades, swapVars, apiKeys,
                   dryRunMode, requests, lastCall, sizingVars>>

OrderQtys == {5000}
\* what getOrderBook gives a dry run: a book that fills, one that does not, a throw
VenueDepths == {BookDeep, BookEmpty, Failed}

NextVenue ==
    \/ \E side \in {"buy", "sell"} : \E qty \in OrderQtys : \E dryRun \in BOOLEAN :
           \E depth \in VenueDepths : \E elapsed \in {0, 1} :
               PlaceMarketOrder(side, qty, dryRun, depth, elapsed)
    \/ \E op \in DOMAIN PrivateOps \ {"placeMarketOrder"} : \E elapsed \in {0, 1} :
           PrivateCall(op, elapsed)
    \/ \E apiKey \in KeyStrings : \E privateKey \in KeyStrings :
           SetApiKeys(apiKey, privateKey)
    \/ ClearApiKeys
    \/ ClockTick

\* the venue service in either mode, before any call
InitVenue ==
    /\ InitPipeline
    /\ trades = [t \in TxIds |-> None]
    /\ swapAction = None
    /\ swapDirection = Unset
    /\ swapTx = NoTx
    /\ swapLog = <<>>
    /\ apiKeys = None
    /\ dryRunMode \in BOOLEAN
    /\ now = 0
    /\ requests = <<>>
    /\ lastCall = None
    /\ IdleSizing

SpecVenue == InitVenue /\ [][NextVenue]_vars

\* --------------------------------------------------------------- pipeline
SizeValues == {0, 100}
DurationValues == {0, 5}

\* the poll loop
NextPoller ==
    \/ StartPolling
    \/ SetInterval
    \/ Tick
    \/ \E age \in inflight : \E response \in Responses(ledger) : PollResponse(age, response)

\* the threshold setters and the detector
NextDetector ==
    \/ \E value \in SizeValues : SetMinOpportunitySize(value)
    \/ \E value \in DurationValues : SetMinOpportunityDurationS(value)
    \/ \E action \in Catalog : \E txStatus \in BOOLEAN : DetectorHandle(action, txStatus)

\* the planner, the exit timers and the exits
NextTrading ==
    \/ \E i \in DOMAIN plans : \E depth \in DepthResults : PlannerSize(i, depth)
    \/ \E i \in DOMAIN plans : \E depth \in DepthResults : PlannerDepth(i, depth)
    \/ \E i \in DOMAIN plans : \E placed \in BOOLEAN : PlannerOrder(i, placed)
    \/ \E tm \in timers : TimerFire(tm)
    \/ \E k \in DOMAIN exiting : \E reply \in ExitReplies : ExitResume(k, reply)

\* calls from outside the pipeline: cancelExit and the shutdown hook
NextControl ==
    \/ \E tradeId \in TxIds : CancelExit(tradeId)
    \/ OnModuleDestroy

\* every step the program takes on its own
Next == NextPoller \/ NextDetector \/ NextTrading

\* the pipeline from the poll to the exit, running on its own
Spec == Init /\ [][Next]_vars

\* The poll loop alone. No other action changes a variable of pollerVars or
\* adds to detectQ, so what holds of them here holds in Spec.
SpecPoller == Init /\ [][NextPoller]_vars

\* The poll loop, the thresholds and the detector; the planner calls it starts
\* stay at their first await.
SpecDetector == Init /\ [][NextPoller \/ NextDetector]_vars

\* the poll loop with the shutdown hook of the poller called at any moment
\* after the start
SpecShutdown == Init /\ [][NextPoller \/ StopPolling]_vars

\* a ledger with one opportunity that is traded and one that is too short
InitTrading == Init /\ ledger = {A2, A3}

\* the pipeline on that ledger
SpecTrading == InitTrading /\ [][Next]_vars

\* the pipeline on that ledger, with cancelExit and the shutdown hook called
\* at any moment
SpecControl == InitTrading /\ [][Next \/ NextControl]_vars

\* what the planner hands to scheduleExit: a transaction, the estimated
\* duration of its swap (5 s is below the exit buffer) and the entry order
ScheduleTxs == {1, 2}
ScheduleDurations == {5, 60}
ScheduleEntries == {[side |-> "buy", qty |-> 1, price |-> 100],
                    [side |-> "sell", qty |-> 1, price |-> 101]}

\* TradeLifecycleService.scheduleExit(opportunity, entryOrder)
ScheduleExit(tradeId, duration, entryOrder) ==
    /\ scheduleCalls < MaxSchedules
    /\ scheduleCalls' = scheduleCalls + 1
    /\ lastSchedule' = [tradeId |-> tradeId, duration |-> duration]
    /\ IF exitDelayMs(duration) <= 0
       THEN UNCHANGED <<activeTrades, timers, nextTimer, exitScheduled>>
       ELSE /\ timers' = timers \cup {[id |-> nextTimer, tradeId |-> tradeId,
                                       delayMs |-> exitDelayMs(duration)]}
            /\ nextTimer' = nextTimer + 1
            /\ activeTrades' = [activeTrades EXCEPT ![tradeId] =
                                   [timer |-> nextTimer, entryOrder |-> entryOrder]]
            /\ exitScheduled' = Bump(exitScheduled, tradeId)
    /\ UNCHANGED <<serviceVars, ledger, pollerVars, detectQ, configVars, detectorVars,
                   plannerVars, exitVars>>

\* TradeLifecycleService alone, its methods called in any order
NextLifecycle ==
    \/ \E tradeId \in ScheduleTxs : \E duration \in ScheduleDurations :
           \E entryOrder \in ScheduleEntries : ScheduleExit(tradeId, duration, entryOrder)
    \/ \E tm \in timers : TimerFire(tm)
    \/ \E k \in DOMAIN exiting : \E reply \in ExitReplies : ExitResume(k, reply)
    \/ \E tradeId \in ScheduleTxs : CancelExit(tradeId)
    \/ OnModuleDestroy

\* A timer that is set fires and a venue call that is awaited answers or
\* fails: setTimeout callbacks and HTTP replies (or their errors) are
\* delivered by the event loop as long as the process runs.
FairExits ==
    /\ WF_vars(\E tm \in timers : TimerFire(tm))
    /\ WF_vars(\E k \in DOMAIN exiting : \E reply \in ExitReplies : ExitResume(k, reply))

SpecLifecycle == InitTrading /\ [][NextLifecycle]_vars /\ FairExits

\* ------------------------------------------------------------- properties
MaxHeightOf(batch) ==
    CHOOSE h \in {batch[k].height : k \in DOMAIN batch} :
        \A k \in DOMAIN batch : batch[k].height <= h

TimersOf(tradeId) == {tm \in timers : tm.tradeId = tradeId}

\* C1: for every transaction id, however often the polls return it and also
\* after the dedup window has been trimmed, 'action.detected',
\* 'streamswap.detected' and 'validopportunity.detected' are each emitted at
\* most once.
C1_AtMostOneOpportunity ==
    \A t \in TxIds :
        /\ actionDetected[t] <= 1
        /\ streamswapDetected[t] <= 1
        /\ validDetected[t] <= 1

\* C2: for every transaction id at most one entry order is placed and at most
\* one exit timer is pending, so no second scheduleExit overwrites a live
\* activeTrades entry and leaves its timer running.
C2_AtMostOneTrade ==
    \A t \in TxIds :
        /\ entryOrders[t] <= 1
        /\ exitScheduled[t] <= 1
        /\ Cardinality(TimersOf(t)) <= 1

\* C3: in one poll every action of the response that has the maximum height of
\* the response and a txID not yet in processedTxIds is emitted as
\* 'action.detected' in that poll, and lastProcessedHeight becomes the maximum
\* over the whole response.
C3_SameHeightAllEmitted ==
    [][(pollsDone' # pollsDone /\ Len(lastBatch') > 0) =>
         LET b == lastBatch'
             top == {k \in DOMAIN b : /\ b[k].height = MaxHeightOf(b)
                                      /\ b[k].txID # NoTx
                                      /\ b[k].txID \notin Range(processedTxIds)}
         IN  /\ \A k \in top :
                   /\ actionDetected'[b[k].txID] = actionDetected[b[k].txID] + 1
                   /\ detectQ'[b[k]] = detectQ[b[k]] + 1
             /\ top # {} =>
                   lastProcessedHeight' = Max(lastProcessedHeight, MaxHeightOf(b))]_vars

\* C3 witness: the first poll received two actions with distinct txIDs at the
\* maximum height and emitted both.
C3_Witness ==
    /\ pollsDone = 1
    /\ \E j, k \in DOMAIN lastBatch :
          /\ lastBatch[j].txID # lastBatch[k].txID
          /\ lastBatch[j].txID # NoTx /\ lastBatch[k].txID # NoTx
          /\ lastBatch[j].height = MaxHeightOf(lastBatch)
          /\ lastBatch[k].height = MaxHeightOf(lastBatch)
          /\ actionDetected[lastBatch[j].txID] = 1
          /\ actionDetected[lastBatch[k].txID] = 1
          /\ lastProcessedHeight = MaxHeightOf(lastBatch)

\* C4: at most one poll is between its start and its end at any time.
C4_NoOverlappingPolls == Cardinality(inflight) <= 1

\* C5: no 'streamswap.detected' and no 'validopportunity.detected' is emitted
\* for an action that is not a swap, has no true isStreamingSwap or has no
\* streamingSwapMeta.
C5_RejectsWithoutStreamingMeta ==
    \A a \in Catalog :
        (a.txID # NoTx /\ (a.type # "swap" \/ ~a.isStreamingSwap \/ ~a.hasMeta)) =>
            /\ streamswapDetected[a.txID] = 0
            /\ validDetected[a.txID] = 0

\* C6: the estimatedDurationSeconds of an Opportunity is count * interval * 6
\* of its action's streaming metadata, whatever the quantity.
C6_DurationFromCount ==
    lastOpportunity # None =>
        \A a \in ledger :
            (a.txID = lastOpportunity.txHash /\ a.hasMeta) =>
                lastOpportunity.estimatedDurationSeconds =
                    parseInt(a.count) * parseInt(a.interval) * 6

\* C7: 'validopportunity.detected' is emitted for an Opportunity if and only
\* if its status is pending, its size is not below the minimum size and its
\* duration is not below the minimum duration; it is emitted nowhere else.
C7_ForwardedIffValid ==
    [][/\ \A t \in TxIds :
            streamswapDetected'[t] # streamswapDetected[t] =>
               LET o == lastOpportunity'
                   passes == /\ o.status = "pending"
                             /\ o.size >= minOpportunitySize
                             /\ o.estimatedDurationSeconds >= minOpportunityDurationS
               IN  /\ o.txHash = t
                   /\ validDetected'[t] = validDetected[t] + (IF passes THEN 1 ELSE 0)
                   /\ Len(plans') = Len(plans) + (IF passes THEN 1 ELSE 0)
       /\ validDetected' # validDetected => streamswapDetected' # streamswapDetected
      ]_vars

\* C7 witness: with minimum duration 30 and minimum size 100, the opportunity
\* of duration 60 and size 150 was forwarded.
C7_Witness ==
    /\ minOpportunitySize = 100
    /\ minOpportunityDurationS = 30
    /\ lastOpportunity # None
    /\ lastOpportunity.size = 150
    /\ lastOpportunity.estimatedDurationSeconds = 60
    /\ lastOpportunity.status = "pending"
    /\ validDetected[lastOpportunity.txHash] = 1

\* C8: no entry order is placed when the book could not fill the full
\* requested quantity.
C8_RejectsPartialFill ==
    \A e \in entryLog : e.filledQty >= e.qty

\* C9: scheduleExit registers exactly one timer of delay
\* (estimatedDurationSeconds - EXIT_BUFFER_SECONDS) * 1000 ms, with its
\* activeTrades entry and one 'trade.exit.scheduled', when that delay is
\* positive (15 s gives 5000 ms), and otherwise creates no timer, stores no
\* entry and emits no event.
C9_ExitDelay ==
    [][scheduleCalls' # scheduleCalls =>
         LET id == lastSchedule'.tradeId
             delay == (lastSchedule'.duration - EXIT_BUFFER_SECONDS) * 1000
         IN  /\ exitDelayMs(15) = 5000
             /\ IF delay > 0
                THEN /\ \E tm \in timers' \ timers :
                           /\ timers' = timers \cup {tm}
                           /\ tm.tradeId = id
                           /\ tm.delayMs = delay
                           /\ activeTrades'[id] # None
                           /\ activeTrades'[id].timer = tm.id
                     /\ exitScheduled' = Bump(exitScheduled, id)
                ELSE /\ timers' = timers
                     /\ activeTrades' = activeTrades
                     /\ exitScheduled' = exitScheduled]_vars

\* C9 witness: scheduleExit was called for a duration above the buffer and
\* its timer is pending.
C9_Witness ==
    /\ lastSchedule # None
    /\ lastSchedule.duration > EXIT_BUFFER_SECONDS
    /\ activeTrades[lastSchedule.tradeId] # None
    /\ \E tm \in timers :
          /\ tm.id = activeTrades[lastSchedule.tradeId].timer
          /\ tm.delayMs = (lastSchedule.duration - EXIT_BUFFER_SECONDS) * 1000
    /\ exitScheduled[lastSchedule.tradeId] = 1

\* C10: no entry order is placed for an opportunity whose estimated duration
\* does not exceed the exit buffer.
C10_NoEntryWhenTooShort ==
    \A e \in entryLog : e.duration > EXIT_BUFFER_SECONDS

\* C11: the PnL of a closed trade is (exit price - entry price) * quantity
\* when the entry was a buy (long) and (entry price - exit price) * quantity
\* when it was a sell (short): entry 10, exit 12, quantity 5 gives +10 long
\* and -10 short, and the long and the short PnL of the same prices and
\* quantity sum to zero.
C11_PnLSign ==
    /\ calculatePnL([side |-> "buy", qty |-> 5, price |-> 10],
                    [side |-> "sell", qty |-> 5, price |-> 12]) = 10
    /\ calculatePnL([side |-> "sell", qty |-> 5, price |-> 10],
                    [side |-> "buy", qty |-> 5, price |-> 12]) = -10
    /\ (lastExit # None /\ lastExit.status = "completed") =>
          LET e == lastExit.entryOrder
              x == lastExit.exitOrder
              other == [e EXCEPT !.side = IF e.side = "buy" THEN "sell" ELSE "buy"]
          IN  /\ e.side = "buy" => lastExit.pnl = (x.price - e.price) * e.qty
              /\ e.side = "sell" => lastExit.pnl = (e.price - x.price) * e.qty
              /\ lastExit.pnl + calculatePnL(other, x) = 0

\* C11 witness: a short trade (entry sell) was closed at a higher price than
\* it was entered, with a negative PnL.
C11_Witness ==
    /\ lastExit # None
    /\ lastExit.status = "completed"
    /\ lastExit.entryOrder.side = "sell"
    /\ lastExit.exitOrder.price > lastExit.entryOrder.price
    /\ lastExit.pnl < 0

\* position of a state in the progression detected .. completed
Rank(state) == CHOOSE k \in DOMAIN TradeStates : TradeStates[k] = state

\* C12: the state of a trade only moves forward along detected, planned,
\* submitted, confirmed, exiting, completed, or to failed from a state that
\* is not terminal; a trade that is completed or failed never changes state
\* again and no state is entered a second time.
C12_ForwardOnly ==
    [][\A id \in TxIds :
          trades[id] # None =>
             /\ trades'[id] # None
             /\ \/ trades'[id].state = trades[id].state
                \/ /\ trades[id].state \notin {"completed", "failed"}
                   /\ \/ trades'[id].state = "failed"
                      \/ /\ trades'[id].state # "failed"
                         /\ Rank(trades'[id].state) > Rank(trades[id].state)]_vars

\* an executeExit is at its await for the entry activeTrades holds for tradeId
ExitRunning(tradeId) ==
    /\ activeTrades[tradeId] # None
    /\ \E k \in DOMAIN exiting :
          /\ exiting[k].tradeId = tradeId
          /\ exiting[k].timer = activeTrades[tradeId].timer

\* C13: once the exit timer of a trade has fired and executeExit is running,
\* a cancelExit for that trade does not report success and does not remove
\* the trade from activeTrades; it succeeds only while the timer is pending.
C13_CancelOnlyBeforeFiring ==
    [][\A t \in TxIds :
          (ExitRunning(t) /\ CancelExit(t)) =>
              /\ ~cancelExit(t)
              /\ activeTrades'[t] = activeTrades[t]]_vars

\* C14: once onModuleDestroy has run, no exit timer is pending and
\* activeTrades is empty, whatever trades were open and whatever planner
\* calls were in progress at that moment.
C14_NoTimerAfterDestroy ==
    destroyed => (timers = {} /\ \A t \in TxIds : activeTrades[t] = None)

\* C15: at most one handling of a 'validopportunity.detected' is at a venue
\* await (depth fetch, simulation, placeMarketOrder) at any time; the planner
\* starts no second one while an earlier one is still awaiting.
C15_OnePlanInFlight == Len(plans) <= 1

\* C16: an opportunity that the status, size or duration check dropped is
\* never evaluated again, on any later poll that returns its action and
\* whatever the thresholds have become.
C16_DroppedNeverReevaluated ==
    [][\A t \in TxIds :
          streamswapDetected[t] > validDetected[t] =>
              streamswapDetected'[t] = streamswapDetected[t]]_vars

\* the output transfers whose first coin can be the output of the swap
UsableOut(a) ==
    {k \in DOMAIN a.out : Len(a.out[k].coins) > 0 /\ a.out[k].coins[1] # a.in[1].coins[1]}

\* C17: getSwapDirection answers from the first source that succeeds, in
\* this order: (1) the first input coin and the first usable output coin,
\* (2) pools[0] and pools[1], (3) inCoin and outCoin of the streaming
\* metadata, and null when all fail; with no output transfer and a pool list
\* of two elements the answer is exactly (pools[0], pools[1]).
C17_DirectionOrder ==
    swapDirection # Unset =>
        LET a == swapAction
            coinsOk == /\ Len(a.in) > 0
                       /\ Len(a.in[1].coins) > 0
                       /\ UsableOut(a) # {}
            poolsOk == Len(a.pools) >= 2
            metaOk == a.meta # None /\ a.meta.inCoin # NoCoin /\ a.meta.outCoin # NoCoin
        IN  /\ coinsOk =>
                  LET first == CHOOSE k \in UsableOut(a) : \A j \in UsableOut(a) : k <= j
                  IN  swapDirection = [from |-> a.in[1].coins[1],
                                       to |-> a.out[first].coins[1]]
            /\ (~coinsOk /\ poolsOk) =>
                  swapDirection = [from |-> a.pools[1], to |-> a.pools[2]]
            /\ (~coinsOk /\ ~poolsOk /\ metaOk) =>
                  swapDirection = [from |-> a.meta.inCoin, to |-> a.meta.outCoin]
            /\ (~coinsOk /\ ~poolsOk /\ ~metaOk) => swapDirection = None
            /\ (Len(a.out) = 0 /\ Len(a.pools) = 2) =>
                  swapDirection = [from |-> a.pools[1], to |-> a.pools[2]]

\* C17 witness: an action with an input coin, no output transfer, two pools
\* and complete streaming metadata was answered with the pool pair.
C17_Witness ==
    /\ swapDirection # Unset
    /\ Len(swapAction.in) > 0
    /\ Len(swapAction.out) = 0
    /\ Len(swapAction.pools) = 2
    /\ swapAction.meta # None
    /\ swapAction.meta.outCoin # NoCoin
    /\ swapDirection = [from |-> swapAction.pools[1], to |-> swapAction.pools[2]]

\* the actions of a response that a poll has to emit: with a txID that is
\* not in processedTxIds
Eligible(b) ==
    {k \in DOMAIN b : b[k].txID # NoTx /\ b[k].txID \notin Range(processedTxIds)}

\* C18: the 'action.detected' events of one poll are emitted in ascending
\* height, actions of equal height in the order of the response, and every
\* action the poll has to emit is among them, whatever its height.
C18_AscendingStable ==
    [][(pollsDone' # pollsDone /\ Len(lastBatch') > 0) =>
         LET b == lastBatch'
             e == lastEmitted'
             Pos(a) == CHOOSE k \in DOMAIN b : b[k] = a
         IN  /\ \A i, j \in DOMAIN e :
                   i < j => \/ e[i].height < e[j].height
                            \/ /\ e[i].height = e[j].height
                               /\ Pos(e[i]) < Pos(e[j])
             /\ Range(e) = {b[k] : k \in Eligible(b)}]_vars

\* C18 witness: the response held a higher action before a lower one and the
\* poll emitted the lower one first.
C18_Witness ==
    /\ Len(lastBatch) = 2
    /\ Len(lastEmitted) = 2
    /\ lastBatch[1].height > lastBatch[2].height
    /\ lastEmitted = <<lastBatch[2], lastBatch[1]>>

\* C19: getRecentActions turns a failed or timed out request into an empty
\* list; the poll that gets it emits nothing, leaves processedTxIds and
\* lastProcessedHeight as they were and ends without another request, and
\* the interval stays set for the next poll.
C19_FailedFetchIsQuiet ==
    [][(pollsDone' # pollsDone /\ fetchFailed') =>
         /\ getRecentActions(FetchFailed) = <<>>
         /\ lastEmitted' = <<>>
         /\ UNCHANGED <<processedTxIds, lastProcessedHeight, actionDetected, detectQ>>
         /\ pollsStarted' = pollsStarted
         /\ Cardinality(inflight') = Cardinality(inflight) - 1
         /\ isRunning' = isRunning
         /\ pollingInterval' = pollingInterval]_vars

\* C19 witness: a poll after the first one failed, with ids already recorded
\* and the interval still set.
C19_Witness ==
    /\ fetchFailed
    /\ pollsDone >= 2
    /\ Len(processedTxIds) > 0
    /\ lastProcessedHeight > 0
    /\ pollingInterval

\* C20: an action that cannot be processed (it has no txID and is dropped
\* with a warning) does not affect the rest of its batch: every other action
\* the poll has to emit is emitted and recorded in that poll, the window is
\* trimmed, lastProcessedHeight is updated and the poll loop stays set.
C20_ItemFailureIsolated ==
    [][(pollsDone' # pollsDone /\ Len(lastBatch') > 0) =>
         LET b == lastBatch'
         IN  /\ \A k \in Eligible(b) :
                   /\ actionDetected'[b[k].txID] = actionDetected[b[k].txID] + 1
                   /\ detectQ'[b[k]] = detectQ[b[k]] + 1
                   /\ b[k].txID \in Range(processedTxIds')
                   /\ lastProcessedHeight' >= b[k].height
             /\ Len(processedTxIds') <= maxProcessedTxIds
             /\ lastProcessedHeight' >= lastProcessedHeight
             /\ isRunning' = isRunning
             /\ pollingInterval' = pollingInterval]_vars

\* C20 witness: the response held an action without txID below an action with
\* one; the latter was emitted and recorded and its height taken.
C20_Witness ==
    \E j, k \in DOMAIN lastBatch :
        /\ lastBatch[j].txID = NoTx
        /\ lastBatch[k].txID # NoTx
        /\ lastBatch[j].height < lastBatch[k].height
        /\ lastEmitted = <<lastBatch[k]>>
        /\ actionDetected[lastBatch[k].txID] = 1
        /\ lastBatch[k].txID \in Range(processedTxIds)
        /\ lastProcessedHeight = lastBatch[k].height

\* the stored keys give no usable pair
KeysAbsent == getApiKeys(apiKeys) = NoKeys

\* C21: while the credentials are absent no step sends an authenticated
\* request, and every call that asks for the credentials ends with the error
\* of getAuthHeaders.
C21_RejectedLocally ==
    [][KeysAbsent =>
         /\ PrivateRequests(requests') = PrivateRequests(requests)
         /\ (lastCall' # lastCall /\ lastCall'.keyReads = 1) =>
                /\ lastCall'.result = KeysError
                /\ requests' = requests]_vars

\* C21 witness: a live placeMarketOrder was rejected with keys stored of which
\* one is empty, and nothing was sent.
C21_Witness ==
    /\ lastCall # None
    /\ lastCall.op = "placeMarketOrder"
    /\ lastCall.result = KeysError
    /\ apiKeys # None
    /\ KeysAbsent
    /\ requests = <<>>

\* what a dry run can return: the simulation on the book or the failed fetch
DryRunResults ==
    {placeMarketOrder(side, qty, depth) :
        side \in {"buy", "sell"}, qty \in OrderQtys, depth \in VenueDepths}

\* C22: a placeMarketOrder whose dryRun argument or whose DRY_RUN_MODE is true
\* sends the public depth request and nothing else, does not read the
\* credentials, and returns the simulation on the book it got (or the failure
\* of the depth request), whatever the stored credentials are.
C22_DryRunSendsNoOrder ==
    [][(requests' # requests /\ lastCall'.op = "placeMarketOrder"
           /\ (lastCall'.dryRun \/ dryRunMode)) =>
         /\ requests' = Append(requests, DepthRequest)
         /\ lastCall'.keyReads = 0
         /\ lastCall'.result \in DryRunResults]_vars

\* C22 witness: with no credentials and the argument false, DRY_RUN_MODE made
\* the call a simulation that filled.
C22_Witness ==
    /\ lastCall # None
    /\ lastCall.op = "placeMarketOrder"
    /\ ~lastCall.dryRun
    /\ dryRunMode
    /\ apiKeys = None
    /\ lastCall.keyReads = 0
    /\ "executed" \in DOMAIN lastCall.result
    /\ lastCall.result.executed
    /\ requests = <<DepthRequest>>

\* C23: of two authenticated requests the later one carries the greater nonce.
C23_NoncesIncrease ==
    LET sent == PrivateRequests(requests)
    IN  \A i, j \in DOMAIN sent : i < j => sent[i].nonce < sent[j].nonce

\* C24: the size computed for an action, by the status lookup path or by the
\* fallback path, is a finite number that is not negative.
C24_SizeFiniteNonNegative ==
    sizeResult # Unset => isFinite(sizeResult) /\ sizeResult.v >= 0

\* the slippage of a simulation, adverse movement counted positive, exceeds
\* MAX_SLIPPAGE_PCT: (avgPrice - bestLevel) / bestLevel * 100 for a buy and
\* its opposite for a sell, with avgPrice = weightedPrice / filledQty
AdverseSlippageExceeds(sim, side) ==
    LET adverse == IF side = "buy"
                   THEN sim.weightedPrice - sim.bestLevel * sim.filledQty
                   ELSE sim.bestLevel * sim.filledQty - sim.weightedPrice
    IN  adverse * 100 > MAX_SLIPPAGE_PCT * sim.bestLevel * sim.filledQty

\* C25: when the planner gets the depth for its liquidity check and the
\* simulation fills, the plan ends there, with no entry order and no exit
\* scheduled, if the adverse slippage exceeds MAX_SLIPPAGE_PCT, and goes on to
\* the entry order if it does not.
C25_SlippageGate ==
    [][\A i \in DOMAIN plans : \A depth \in Books :
         (plans[i].pc = "depth" /\ PlannerDepth(i, depth)) =>
            LET side == determineKrakenSide(plans[i].opportunity.tradeDirection)
                sim == simulateMarketTrade(depth, side, plans[i].tradeQty)
            IN  sim.executed =>
                   IF AdverseSlippageExceeds(sim, side)
                   THEN /\ plans' = Remove(plans, i)
                        /\ UNCHANGED <<entryOrders, scheduleVars>>
                   ELSE /\ Len(plans') = Len(plans)
                        /\ plans'[i].pc = "order"
                        /\ plans'[i].opportunity = plans[i].opportunity]_vars

\* C25 witness: a plan was rejected for slippage, its call is over, and no
\* entry order or exit exists for its opportunity.
C25_Witness ==
    \E t \in slippageRejects :
        /\ \A i \in DOMAIN plans : plans[i].opportunity.txHash # t
        /\ entryOrders[t] = 0
        /\ exitScheduled[t] = 0
        /\ activeTrades[t] = None

\* C26: a failed depth fetch does not end the plan: in the sizing step the
\* plan goes on to the liquidity check with the quantity FALLBACK_QTY, and in
\* the liquidity check the plan is still there afterwards.
C26_DepthFailureKeepsPlan ==
    [][\A i \in DOMAIN plans :
         /\ PlannerSize(i, Failed) =>
                /\ Len(plans') = Len(plans)
                /\ plans'[i].pc = "depth"
                /\ plans'[i].tradeQty = FALLBACK_QTY
         /\ PlannerDepth(i, Failed) => Len(plans') = Len(plans)]_vars

\* C27: an exit whose placeMarketOrder failed leaves the trade out of the
\* active set with the status 'failed', and once an exit of a trade has
\* failed no exit order is sent and no timer is set for that trade.
C27_FailedExitNotRetried ==
    [][/\ \A k \in DOMAIN exiting :
            ExitResume(k, Failed) =>
                /\ activeTrades'[exiting[k].tradeId] = None
                /\ lastExit' # None
                /\ lastExit'.tradeId = exiting[k].tradeId
                /\ lastExit'.status = "failed"
       /\ (lastExit # None /\ lastExit.status = "failed") =>
             /\ exitOrders'[lastExit.tradeId] = exitOrders[lastExit.tradeId]
             /\ {tm \in timers' : tm.tradeId = lastExit.tradeId}
                    \subseteq TimersOf(lastExit.tradeId)]_vars

\* C28: 'trade.exit.scheduled' and 'trade.exit.completed' are each emitted at
\* most once for a trade id, and 'trade.exit.completed' only for a trade id
\* that had 'trade.exit.scheduled'.
C28_LifecycleEventsOnce ==
    \A t \in TxIds :
        /\ exitScheduled[t] <= 1
        /\ exitCompleted[t] <= 1
        /\ exitCompleted[t] > 0 => exitScheduled[t] > 0

\* C29: after every poll the window holds at most maxProcessedTxIds ids,
\* without repetition: the ids it held and the ids the poll inserted, in
\* insertion order, cut to the newest ones; every id the poll inserted is
\* still there.
C29_WindowEvictsOldest ==
    [][pollsDone' # pollsDone =>
         LET inserted == TxIdsOf(lastEmitted')
             full == processedTxIds \o inserted
             kept == Min(Len(full), maxProcessedTxIds)
         IN  /\ Len(processedTxIds') <= maxProcessedTxIds
             /\ processedTxIds' = SubSeq(full, Len(full) - kept + 1, Len(full))
             /\ Range(inserted) \subseteq Range(processedTxIds')
             /\ \A i, j \in DOMAIN processedTxIds' :
                    i # j => processedTxIds'[i] # processedTxIds'[j]]_vars

\* C29 witness: a poll inserted an id into a full window; an id emitted
\* earlier is gone and the id just inserted is there.
C29_Witness ==
    /\ pollsDone >= 2
    /\ Len(lastEmitted) > 0
    /\ Len(processedTxIds) = maxProcessedTxIds
    /\ Range(TxIdsOf(lastEmitted)) \subseteq Range(processedTxIds)
    /\ \E t \in TxIds : actionDetected[t] > 0 /\ t \notin Range(processedTxIds)

\* the action of the ledger with a transaction id
ActionOf(t) == CHOOSE a \in Catalog : a.txID = t

AllSourcesFail(a) ==
    /\ ~(/\ Len(a.in) > 0 /\ Len(a.out) > 0
         /\ FirstInCoin(a) # NoCoin
         /\ \E k \in DOMAIN a.out :
                Len(a.out[k].coins) > 0 /\ a.out[k].coins[1] # FirstInCoin(a))
    /\ Len(a.pools) < 2
    /\ (a.meta = None \/ a.meta.inCoin = NoCoin \/ a.meta.outCoin = NoCoin)

\* what a finished handleStreamSwap call emits when the direction is known
EmitsWithDirection(e) == e.handler = "assets" \/ e.action.meta # None

\* C31: an action for which all three direction sources fail is dropped, no
\* 'streamswap.detected' is emitted for its transaction; every other handled
\* action is emitted exactly as it would be alone, whatever was dropped before
C31_UnclassifiedDropped ==
    \A k \in DOMAIN swapLog :
        LET e == swapLog[k]
        IN  /\ AllSourcesFail(e.action) =>
                   ~e.emitted /\ streamswapDetected[e.tx] = 0
            /\ ~AllSourcesFail(e.action) =>
                   streamswapDetected[e.tx] = (IF EmitsWithDirection(e) THEN 1 ELSE 0)

\* C31 witness: an action without any direction source was dropped and the
\* next stream swap, with a pool pair, was emitted
C31_Witness ==
    /\ Len(swapLog) = 2
    /\ AllSourcesFail(swapLog[1].action)
    /\ ~swapLog[1].emitted
    /\ ~AllSourcesFail(swapLog[2].action)
    /\ streamswapDetected[swapLog[2].tx] = 1

\* an output transfer that getSwapDirection passes over: no coins, or a first
\* coin in the input asset (an affiliate fee)
SkippedOut(outTx, inAsset) == Len(outTx.coins) = 0 \/ outTx.coins[1] = inAsset

\* C32: a direction taken from the in/out coins has the first input coin as
\* 'from' and as 'to' the first coin of the first output transfer that is
\* neither empty nor an affiliate fee, so 'to' differs from 'from'; when every
\* output transfer is empty or an affiliate fee the pool pair is returned if
\* the pool list has one
C32_AffiliateFeeSkipped ==
    swapDirection # Unset /\ swapTx = NoTx =>
        LET a == swapAction
            inCoin == FirstInCoin(a)
            allSkipped == \A k \in DOMAIN a.out : SkippedOut(a.out[k], inCoin)
        IN  /\ (Len(a.in) > 0 /\ inCoin # NoCoin /\ ~allSkipped) =>
                  \E k \in DOMAIN a.out :
                      /\ ~SkippedOut(a.out[k], inCoin)
                      /\ \A j \in 1..(k - 1) : SkippedOut(a.out[j], inCoin)
                      /\ swapDirection = [from |-> inCoin, to |-> a.out[k].coins[1]]
                      /\ swapDirection.to # swapDirection.from
            /\ (allSkipped /\ Len(a.pools) >= 2) =>
                  swapDirection = [from |-> a.pools[1], to |-> a.pools[2]]

\* C32 witness: the first output transfer is an affiliate fee in the input
\* asset and the direction comes from the second one
C32_Witness ==
    /\ swapDirection # Unset
    /\ swapTx = NoTx
    /\ Len(swapAction.out) = 2
    /\ FirstInCoin(swapAction) = "THOR.RUJI"
    /\ swapAction.out[1].coins = <<"THOR.RUJI">>
    /\ swapAction.out[2].coins = <<"THOR.RUNE">>
    /\ swapDirection = [from |-> "THOR.RUJI", to |-> swapAction.out[2].coins[1]]
    /\ Len(swapAction.pools) = 2

\* C33: a trade is recorded as completed, with a PnL, only if the venue
\* result of its exit order reports a fill
C33_CompletedOnlyWhenFilled ==
    (lastExit # None /\ lastExit.status = "completed") => lastExit.filled

\* C34: once stopPolling has run no polling interval exists and no further
\* poll is started
C34_StoppedStaysStopped ==
    stopped # None => ~pollingInterval /\ pollsStarted = stopped.pollsStarted

\* the heights of the actions emitted as 'action.detected' so far
EmittedHeights == {a.height : a \in {c \in Catalog : c.txID # NoTx /\ actionDetected[c.txID] > 0}}

MaxEmittedHeight ==
    IF EmittedHeights = {} THEN 0
    ELSE CHOOSE h \in EmittedHeights : \A g \in EmittedHeights : g <= h

\* C35: no step lowers lastProcessedHeight, and after every step it is the
\* greatest height of the actions emitted so far, 0 when none was emitted
C35_HeightMonotone ==
    [][/\ lastProcessedHeight' >= lastProcessedHeight
       /\ lastProcessedHeight' = MaxEmittedHeight']_vars

\* C35 witness: a poll emitted actions that are all below the height reached
\* by an earlier poll, and the height stayed
C35_Witness ==
    /\ pollsDone >= 2
    /\ Len(lastEmitted) > 0
    /\ MaxHeightOf(lastEmitted) < lastProcessedHeight
    /\ lastProcessedHeight = MaxEmittedHeight

\* C36: every authenticated request is posted with the nonce that its
\* signature was computed over
C36_SignedNonceIsSent ==
    LET sent == PrivateRequests(requests)
    IN  \A k \in DOMAIN sent : sent[k].signedNonce = sent[k].nonce

\* a threshold is a finite number above 0
PositiveFinite(x) == isFinite(x) /\ x.v > 0

\* C37: both thresholds are positive finite numbers after every setter call,
\* and a call that throws, setConfig included, leaves both thresholds as they
\* were
C37_SettersAllOrNothing ==
    [][/\ PositiveFinite(minOpportunitySize') /\ PositiveFinite(minOpportunityDurationS')
       /\ configCall'.threw =>
              UNCHANGED <<minOpportunitySize, minOpportunityDurationS>>]_vars

\* C38: with exit timers firing and venue calls answering, every trade that
\* is in activeTrades leaves it later (exit completed, exit failed, cancelExit
\* or shutdown)
C38_ExitsResolve ==
    \A t \in TxIds : (activeTrades[t] # None) ~> (activeTrades[t] = None)

\* C38 witness: a trade that was scheduled has left activeTrades through its
\* exit, completed or failed, its timer gone
C38_Witness ==
    /\ lastExit # None
    /\ exitScheduled[lastExit.tradeId] > 0
    /\ activeTrades[lastExit.tradeId] = None
    /\ TimersOf(lastExit.tradeId) = {}

====
